---- MODULE Spec2Model ----
\* SlideCraft: the page's synthesis lifecycle (src/app/page.tsx), the generate
\* route (src/app/api/generate/route.ts) and the slide templates' editor state
\* (src/unnamed/part_004: MinimalistTemplate / HybridTemplate / MaximalistTemplate,
\* which share the same navigation and effect code).
EXTENDS Integers, Sequences, FiniteSets, TLC

VARIABLES
    step,              \* Home: 'input' | 'customize' | 'generating' | 'result'
    inputType,         \* Home: 'url' | 'file'
    url,               \* Home: the URL input's text
    file,              \* Home: the chosen file: "none" | "pdf" | "txt"
    loading,           \* Home: loading flag
    error,             \* Home: error message, "" when none
    presentation,      \* Home: the live Presentation, or NullPresentation
    selectedTemplate,  \* Home: 'minimalist' | 'hybrid' | 'maximalist'
    apiKey,            \* generate route: is GEMINI_API_KEY configured
    inflight,          \* generatePresentation calls suspended at an await
    started,           \* number of generatePresentation calls so far
    lastResp,          \* history: the last completed generatePresentation call
    crashed,           \* a render threw (slides.length of undefined)
    currentSlide,      \* template: useState(0)
    prevSlidesLength,  \* template: useRef(slides.length)
    ops,               \* number of deck-changing editor operations so far
    last,              \* history: the last editor operation and its pre-state
    synthesized,       \* resolver: the Presentation passed in
    images,            \* resolver: the local image references passed in
    resolved,          \* resolver: the Presentation returned, or NullPresentation
    scrapeRequest,     \* scrape route: the request and what the target site does
    scrapeResult       \* scrape route: the response, or NoScrape before the call

vars == <<step, inputType, url, file, loading, error, presentation,
          selectedTemplate, apiKey, inflight, started, lastResp, crashed,
          currentSlide, prevSlidesLength, ops, last,
          synthesized, images, resolved, scrapeRequest, scrapeResult>>

\* The variables of the Placeholder Resolver and of the scrape route, which
\* the page and the templates leave alone.
offPageVars == <<synthesized, images, resolved, scrapeRequest, scrapeResult>>

pageVars == <<step, inputType, url, file, loading, error, apiKey, inflight,
              started, lastResp, offPageVars>>

\* ------------------------------------------------------------------ bounds
MaxSlides == 3        \* inserts stop at this deck length
MaxOps == 2           \* deck-changing editor operations per run
MaxRequests == 2      \* generatePresentation calls per run
MaxFontSize == 18     \* largest font size a run of size clicks stores
MaxRotation == 10     \* largest rotation a run of rotate clicks stores

\* ------------------------------------------------------- JavaScript values
\* NaN, as produced by (prev + 1) % slides.length when slides.length is 0.
NaN == -999

JsAdd(a, b) == IF a = NaN \/ b = NaN THEN NaN ELSE a + b

\* JavaScript %: NaN for a zero divisor, sign of the dividend otherwise.
JsMod(a, n) ==
    IF a = NaN \/ n = NaN \/ n = 0 THEN NaN
    ELSE IF a >= 0 THEN a % n ELSE -((-a) % n)

\* JavaScript >=: false whenever an operand is NaN.
JsGe(a, b) == a # NaN /\ b # NaN /\ a >= b

\* {...obj, [key]: value}; obj may be the empty record (spread of undefined).
Spread(obj, key, value) ==
    [k \in (DOMAIN obj) \cup {key} |-> IF k = key THEN value ELSE obj[k]]

EmptyRecord == [k \in {} |-> 0]

\* obj.key, with EmptyRecord standing for undefined (a map that is absent).
PropOrEmpty(obj, key) == IF key \in DOMAIN obj THEN obj[key] ELSE EmptyRecord

\* ------------------------------------------------------------ the data model
NullPresentation == [isNull |-> TRUE]

\* A value is a Presentation when it has a title and a slides sequence.
IsPresentation(p) == DOMAIN p = {"title", "slides"}

SlideA == [type |-> "title", title |-> "A", subtitle |-> "a"]
SlideB == [type |-> "statement", text |-> "B"]

\* InsertSlide's default slide for the plain "add" action.
NewTextSlide == [type |-> "content", title |-> "New Slide", text |-> "Click to edit"]

\* The synthesized decks an editing session starts from.
InitSlides == {<<>>, <<SlideA>>, <<SlideA, SlideB>>, <<SlideB, SlideB>>}
InitDecks == {[title |-> "T", slides |-> s] : s \in InitSlides}

Slides == IF IsPresentation(presentation) THEN presentation.slides ELSE <<>>

\* ------------------------------------------------- template (part_004:533-577)
nextSlideNoWrap(prev, len) == JsAdd(prev, 1)
nextSlide(prev, len) == JsMod(JsAdd(prev, 1), len)
prevSlide(prev, len) == JsMod(JsAdd(JsAdd(prev, -1), len), len)

ClampEffectNoClamp(cur, len) == cur
\* "Ensure currentSlide is valid if slides are deleted"
ClampEffect(cur, len) == IF JsGe(cur, len) /\ len > 0 THEN len - 1 ELSE cur

AutoNavigateEffectNever(cur, len, prevLen) == cur
\* "Auto-navigate to new slide"
AutoNavigateEffect(cur, len, prevLen) == IF len > prevLen THEN len - 1 ELSE cur

\* The effects of one commit: the clamp effect and the auto-navigate effect run
\* in declaration order on the committed values (the later setCurrentSlide
\* wins), and the clamp effect runs again on the re-render.
RunEffects(cur, len, prevLen) ==
    LET queued == AutoNavigateEffect(ClampEffect(cur, len), len, prevLen)
    IN ClampEffect(queued, len)

\* What the template returns: "No slides", a slide, or an empty container
\* (renderSlide of undefined returns null).
View ==
    IF Len(Slides) = 0 THEN "No slides"
    ELSE IF currentSlide # NaN /\ currentSlide \in 0..(Len(Slides) - 1) THEN "slide"
    ELSE "blank"

\* ------------------------------------------- slide renderer (part_004:248-529)
\* The text fields MinimalistSlide renders as EditableText for a slide type;
\* its customization keys are the same names.
RenderedFields(slide) ==
    CASE slide.type = "title" -> {"title", "subtitle"}
      [] slide.type = "statement" -> {"text"}
      [] slide.type = "content" -> {"title", "text"}
      [] OTHER -> {}

\* styles.min.*.fontSize of the element that renders the field.
StyleFontSize(slide, key) ==
    CASE slide.type = "title" /\ key = "title" -> 64
      [] slide.type = "title" /\ key = "subtitle" -> 12
      [] slide.type = "statement" /\ key = "text" -> 64
      [] slide.type = "content" /\ key = "title" -> 28
      [] slide.type = "content" /\ key = "text" -> 22
      [] OTHER -> 0

\* a || b for numbers: 0 and NaN are falsy; an absent number is passed as 0.
OrElse(a, b) == IF a # 0 /\ a # NaN THEN a ELSE b

CustomValue(slide, kind, key) ==
    IF key \in DOMAIN PropOrEmpty(slide, kind) THEN slide[kind][key] ELSE 0

\* EditableText's A- / A+ buttons: (fontSize || parseInt(style.fontSize) || 16) -+ 2
ButtonFontSize(fontSize, style, dir) == OrElse(fontSize, OrElse(style, 16)) + 2 * dir

\* EditableText's rotate buttons: (rotation || 0) -+ 5
ButtonRotation(rotation, dir) == OrElse(rotation, 0) + 5 * dir

\* The A- / A+ click on the field key of a slide MinimalistSlide renders.
FontSizeClicked(slide, key, dir) ==
    ButtonFontSize(CustomValue(slide, "fontSizes", key), StyleFontSize(slide, key), dir)

\* The rotate click on the field key of a slide MinimalistSlide renders.
RotationClicked(slide, key, dir) ==
    ButtonRotation(CustomValue(slide, "rotations", key), dir)

updateFSReplace(slide, key, size) == [k \in {key} |-> size]
\* updateFS: the merged fontSizes map handed to handleEdit('fontSizes', ...)
updateFS(slide, key, size) == Spread(PropOrEmpty(slide, "fontSizes"), key, size)

\* updateRot: the merged rotations map handed to handleEdit('rotations', ...)
updateRot(slide, key, deg) == Spread(PropOrEmpty(slide, "rotations"), key, deg)

\* updatePos: the merged positions map handed to handleEdit('positions', ...)
updatePos(slide, key, pos) == Spread(PropOrEmpty(slide, "positions"), key, pos)

renderSlideOnEditNext(cur) == cur + 1
\* renderSlide: the slide index the template passes to onEdit
renderSlideOnEdit(cur) == cur

\* ----------------------------------------------- Deck Editor (spec.md 4.3)
InRange(slides, index) == index # NaN /\ index \in 0..(Len(slides) - 1)

EditFieldWholeSlide(slides, index, field, value) ==
    IF InRange(slides, index)
    THEN [slides EXCEPT ![index + 1] = [type |-> @.type] @@ (field :> value)]
    ELSE slides
\* EditField(slideIndex, fieldName, value): replaces one field of one slide.
EditField(slides, index, field, value) ==
    IF InRange(slides, index)
    THEN [slides EXCEPT ![index + 1] = Spread(@, field, value)]
    ELSE slides

InsertSlideAtEnd(slides, afterIndex, newSlide) == Append(slides, newSlide)
\* InsertSlide(afterIndex, newSlide): newSlide lands right after afterIndex.
InsertSlide(slides, afterIndex, newSlide) ==
    SubSeq(slides, 1, afterIndex + 1) \o <<newSlide>>
        \o SubSeq(slides, afterIndex + 2, Len(slides))

\* DeleteSlide(index): removes the slide at index; ignores a bad index.
DeleteSlide(slides, index) ==
    IF InRange(slides, index)
    THEN SubSeq(slides, 1, index) \o SubSeq(slides, index + 2, Len(slides))
    ELSE slides

\* ------------------------------------------------------------ editor actions
\* The template is rendered only for step 'result' with a presentation
\* (page.tsx:350) and only while no render has thrown.
Mounted == step = "result" /\ ~crashed /\ IsPresentation(presentation)

TextValues == {"", "Z"}
DragPositions == {[x |-> 10, y |-> 0]}

\* No scrape request has been made.
NoScrape == [none |-> TRUE]

\* The resolver and the scrape route before any call.
OffPageIdle ==
    /\ synthesized = NullPresentation /\ images = <<>> /\ resolved = NullPresentation
    /\ scrapeRequest = NoScrape /\ scrapeResult = NoScrape

\* The history of completed generatePresentation calls, before any completes.
NoResponse ==
    [id |-> 0, outcome |-> "none", stage |-> "none",
     upstream |-> [kind |-> "none", text |-> <<>>, message |-> <<>>, reason |-> ""],
     response |-> [status |-> 0, body |-> EmptyRecord],
     before |-> NullPresentation,
     sent |-> [content |-> 0, generate |-> 0]]

NoOp == [op |-> "none", index |-> 0, key |-> "", cur |-> 0]

\* What an operation leaves in the history: its kind, its index and key
\* arguments, and the index that was displayed when it was issued.
Record(op, index, key) ==
    [op |-> op, index |-> index, key |-> key, cur |-> currentSlide]

\* setPresentation with new slides, then the template's effects.
Commit(newSlides) ==
    /\ presentation' = [presentation EXCEPT !.slides = newSlides]
    /\ currentSlide' = RunEffects(currentSlide, Len(newSlides), prevSlidesLength)
    /\ prevSlidesLength' = Len(newSlides)
    /\ ops' = ops + 1
    /\ UNCHANGED <<pageVars, selectedTemplate, crashed>>

NavigateClearing(target, op) ==
    /\ currentSlide' = RunEffects(target, Len(Slides), prevSlidesLength)
    /\ last' = Record(op, currentSlide, "")
    /\ presentation' = [presentation EXCEPT !.slides = <<>>]
    /\ UNCHANGED <<pageVars, selectedTemplate, crashed, prevSlidesLength, ops>>

\* setCurrentSlide from a navigation event, then the clamp effect.
Navigate(target, op) ==
    /\ currentSlide' = RunEffects(target, Len(Slides), prevSlidesLength)
    /\ last' = Record(op, currentSlide, "")
    /\ UNCHANGED <<pageVars, presentation, selectedTemplate, crashed,
                   prevSlidesLength, ops>>

\* The right arrow button, or ArrowRight / space (the key listener stays
\* registered while "No slides" is shown).
NextSlide ==
    /\ Mounted
    /\ Navigate(nextSlide(currentSlide, Len(Slides)), "next")

\* The left arrow button, or ArrowLeft.
PrevSlide ==
    /\ Mounted
    /\ Navigate(prevSlide(currentSlide, Len(Slides)), "prev")

\* The template's add button: onAdd(currentSlide).
AddClick ==
    /\ Mounted /\ Len(Slides) > 0 /\ InRange(Slides, currentSlide)
    /\ ops < MaxOps /\ Len(Slides) < MaxSlides
    /\ last' = Record("insert", currentSlide, "")
    /\ Commit(InsertSlide(Slides, currentSlide, NewTextSlide))

DeleteButtonIndexFirst(cur) == 0
\* The index the delete button passes: onDelete(currentSlide).
DeleteButtonIndex(cur) == cur

\* The template's delete button; the history marks it with the key "button".
DeleteClick ==
    /\ Mounted /\ Len(Slides) > 0
    /\ ops < MaxOps
    /\ last' = Record("delete", DeleteButtonIndex(currentSlide), "button")
    /\ Commit(DeleteSlide(Slides, DeleteButtonIndex(currentSlide)))

\* EditableText blur on a rendered field: onChange(textContent || '').
BlurEdit ==
    /\ Mounted /\ InRange(Slides, currentSlide)
    /\ ops < MaxOps
    /\ \E field \in RenderedFields(Slides[currentSlide + 1]), val \in TextValues :
          /\ last' = Record("edit", currentSlide, field)
          /\ Commit(EditField(Slides, renderSlideOnEdit(currentSlide), field, val))

\* EditableText's A- / A+ buttons on a rendered field.
FontSizeClick ==
    /\ Mounted /\ InRange(Slides, currentSlide)
    /\ ops < MaxOps
    /\ LET slide == Slides[currentSlide + 1]
       IN \E key \in RenderedFields(slide), dir \in {-1, 1} :
             /\ last' = Record("fontSizes", currentSlide, key)
             /\ Commit(EditField(Slides, renderSlideOnEdit(currentSlide), "fontSizes",
                                 updateFS(slide, key, FontSizeClicked(slide, key, dir))))

\* EditableText's rotate buttons on a rendered field.
RotationClick ==
    /\ Mounted /\ InRange(Slides, currentSlide)
    /\ ops < MaxOps
    /\ LET slide == Slides[currentSlide + 1]
       IN \E key \in RenderedFields(slide), dir \in {-1, 1} :
             /\ last' = Record("rotations", currentSlide, key)
             /\ Commit(EditField(Slides, renderSlideOnEdit(currentSlide), "rotations",
                                 updateRot(slide, key, RotationClicked(slide, key, dir))))

\* Draggable onStop on a rendered field.
DragStop ==
    /\ Mounted /\ InRange(Slides, currentSlide)
    /\ ops < MaxOps
    /\ LET slide == Slides[currentSlide + 1]
       IN \E key \in RenderedFields(slide), pos \in DragPositions :
             /\ last' = Record("positions", currentSlide, key)
             /\ Commit(EditField(Slides, renderSlideOnEdit(currentSlide), "positions",
                                 updatePos(slide, key, pos)))

\* The Deck Editor's operations called with any index (spec.md 4.3).
EditorInsert ==
    /\ Mounted
    /\ ops < MaxOps /\ Len(Slides) < MaxSlides
    /\ \E afterIndex \in -1..(Len(Slides) - 1) :
          /\ last' = Record("insert", afterIndex, "")
          /\ Commit(InsertSlide(Slides, afterIndex, NewTextSlide))

EditorDelete ==
    /\ Mounted
    /\ ops < MaxOps
    /\ \E index \in -1..Len(Slides) :
          /\ last' = Record("delete", index, "")
          /\ Commit(DeleteSlide(Slides, index))

EditorEdit ==
    /\ Mounted
    /\ ops < MaxOps
    /\ \E index \in -1..Len(Slides), field \in {"title"}, val \in {"Z"} :
          /\ last' = Record("edit", index, field)
          /\ Commit(EditField(Slides, index, field, val))

\* The template cards of the customize step (page.tsx:284) and the style
\* <select> of the result step (page.tsx:363), where another template
\* component mounts with fresh state.
SetSelectedTemplate ==
    /\ step = "customize" \/ Mounted
    /\ \E t \in {"minimalist", "hybrid", "maximalist"} :
          /\ t # selectedTemplate
          /\ selectedTemplate' = t
    /\ currentSlide' = 0
    /\ prevSlidesLength' = IF Mounted THEN Len(Slides) ELSE 0
    /\ last' = IF Mounted THEN Record("template", 0, "") ELSE last
    /\ UNCHANGED <<pageVars, presentation, crashed, ops>>

EditorInit ==
    /\ step = "result"
    /\ inputType = "url" /\ url = "u" /\ file = "none"
    /\ loading = FALSE /\ error = ""
    /\ presentation \in InitDecks
    /\ selectedTemplate = "minimalist"
    /\ apiKey = TRUE
    /\ inflight = {} /\ started = 1
    /\ lastResp = [NoResponse EXCEPT !.id = 1, !.outcome = "ok", !.stage = "generate",
                                     !.sent = [content |-> 1, generate |-> 1]]
    /\ crashed = FALSE
    /\ currentSlide = 0
    /\ prevSlidesLength = Len(presentation.slides)
    /\ ops = 0
    /\ last = NoOp
    /\ OffPageIdle

EditorNext ==
    \/ NextSlide \/ PrevSlide
    \/ AddClick \/ DeleteClick
    \/ BlurEdit \/ FontSizeClick \/ RotationClick \/ DragStop
    \/ EditorInsert \/ EditorDelete \/ EditorEdit
    \/ SetSelectedTemplate

\* The editing session on a synthesized deck.
SpecEditor == EditorInit /\ [][EditorNext]_vars

\* ----------------------------------- generate route (api/generate/route.ts)
\* The model's reply is a sequence of tokens: the three-backtick fence, the
\* word "json", the newline, and document tokens, each a whole JSON text or
\* a piece of prose.
FENCE == "<fence>"
NL == "<newline>"
JsonDocs ==
    [d \in {"{presentation:{title,slides:[A,B]}}", "{presentation:{title,slides:[]}}",
            "{presentation:{title}}", "{}", "null"} |->
        CASE d = "{presentation:{title,slides:[A,B]}}" ->
                 [presentation |-> [title |-> "T", slides |-> <<SlideA, SlideB>>]]
          [] d = "{presentation:{title,slides:[]}}" ->
                 [presentation |-> [title |-> "T", slides |-> <<>>]]
          [] d = "{presentation:{title}}" -> [presentation |-> [title |-> "T"]]
          [] d = "{}" -> EmptyRecord
          [] d = "null" -> NullPresentation]

Prose == "Here is your deck"
DocTokens == (DOMAIN JsonDocs) \cup {Prose}

\* The replies the generation service gives: bare, fenced as json, fenced
\* plainly, and fenced without the newlines.
Replies ==
    UNION {{ <<d>>,
             <<FENCE, "json", NL, d, NL, FENCE>>,
             <<FENCE, NL, d, NL, FENCE, NL>>,
             <<FENCE, "json", d, FENCE>> } : d \in DocTokens}

RECURSIVE TrimStart(_)
TrimStart(t) == IF t # <<>> /\ Head(t) = NL THEN TrimStart(Tail(t)) ELSE t

RECURSIVE TrimEnd(_)
TrimEnd(t) ==
    IF t # <<>> /\ t[Len(t)] = NL THEN TrimEnd(SubSeq(t, 1, Len(t) - 1)) ELSE t

\* String.prototype.trim
Trim(t) == TrimEnd(TrimStart(t))

StartsWith(t, prefix) ==
    Len(t) >= Len(prefix) /\ SubSeq(t, 1, Len(prefix)) = prefix

EndsWith(t, suffix) ==
    Len(t) >= Len(suffix) /\ SubSeq(t, Len(t) - Len(suffix) + 1, Len(t)) = suffix

\* t.replace of a pattern anchored at the start, by the empty string
RemovePrefix(t, prefix) ==
    IF StartsWith(t, prefix) THEN SubSeq(t, Len(prefix) + 1, Len(t)) ELSE t

RemoveSuffixNever(t, suffix) == t
\* t.replace of a pattern anchored at the end, by the empty string
RemoveSuffix(t, suffix) ==
    IF EndsWith(t, suffix) THEN SubSeq(t, 1, Len(t) - Len(suffix)) ELSE t

\* "Clean up markdown code blocks if present"
StripFence(t) ==
    IF StartsWith(t, <<FENCE, "json">>)
    THEN RemoveSuffix(RemovePrefix(t, <<FENCE, "json", NL>>), <<NL, FENCE>>)
    ELSE IF StartsWith(t, <<FENCE>>)
    THEN RemoveSuffix(RemovePrefix(t, <<FENCE, NL>>), <<NL, FENCE>>)
    ELSE t

\* JSON.parse: whitespace around one JSON text is allowed, anything else throws.
JSONParse(t) ==
    LET body == Trim(t)
    IN IF Len(body) = 1 /\ body[1] \in DOMAIN JsonDocs
       THEN [ok |-> TRUE, value |-> JsonDocs[body[1]]]
       ELSE [ok |-> FALSE, value |-> EmptyRecord]

\* The Errors model.generateContent throws, by what the service reported; a
\* message is a sequence of words.
UpstreamErrors ==
    {[reason |-> "auth", message |-> <<"API", "key", "not", "valid">>],
     [reason |-> "auth", message |-> <<"400", "API", "key", "expired">>],
     [reason |-> "network", message |-> <<"fetch", "failed">>],
     [reason |-> "quota", message |-> <<"429", "quota", "exceeded">>]}

\* What model.generateContent does: it returns text, it throws an Error, or
\* it throws a value that is not an Error.
UpstreamOutcomes ==
    {[kind |-> "text", text |-> t, message |-> <<>>, reason |-> ""] : t \in Replies}
        \cup {[kind |-> "throw", text |-> <<>>, message |-> e.message,
               reason |-> e.reason] : e \in UpstreamErrors}
        \cup {[kind |-> "throw value", text |-> <<>>, message |-> <<>>,
               reason |-> "other"]}

\* The outcome recorded for a request that never reached the service.
NotInvoked == NoResponse.upstream

InvokesAlways(key) == TRUE
\* if (!apiKey || !genAI) return ...: generateContent is reached with a key only
Invokes(key) == key

\* String.prototype.includes, on sequences of words
Includes(t, part) ==
    \E i \in 1..(Len(t) - Len(part) + 1) : SubSeq(t, i, i + Len(part) - 1) = part

\* error instanceof Error ? error.message : 'Unknown error'
ErrorMessage(upstream) ==
    IF upstream.kind = "throw" THEN upstream.message ELSE <<"Unknown", "error">>

IncludesApiKeyNever(message) == FALSE
\* errorMessage.includes('API key')
IncludesApiKey(message) == Includes(message, <<"API", "key">>)

ParseFailureResponseOk ==
    [status |-> 200, body |-> [error |-> "Failed to generate valid presentation data"]]
\* The response to a reply that JSON.parse rejects (route.ts:72-78).
ParseFailureResponse ==
    [status |-> 500, body |-> [error |-> "Failed to generate valid presentation data"]]

\* POST: the response for a configured or missing key and an upstream outcome.
GenerateRoute(key, upstream) ==
    IF ~key
    THEN [status |-> 500, body |-> [error |-> "Gemini API key not configured"]]
    ELSE IF upstream.kind \in {"throw", "throw value"}
    THEN IF IncludesApiKey(ErrorMessage(upstream))
         THEN [status |-> 401, body |-> [error |-> "Invalid API key"]]
         ELSE [status |-> 500,
               body |-> [error |-> "Failed to generate presentation: ",
                         cause |-> ErrorMessage(upstream)]]
    ELSE LET parsed == JSONParse(StripFence(Trim(upstream.text)))
         IN IF parsed.ok THEN [status |-> 200, body |-> parsed.value]
            ELSE ParseFailureResponse

\* ------------------------------------------------- the page (app/page.tsx)
\* handleUrlChange
HandleUrlChange ==
    /\ step = "input" /\ inputType = "url"
    /\ \E v \in {"", "u"} : v # url /\ url' = v
    /\ UNCHANGED <<step, inputType, file, loading, error, presentation,
                   selectedTemplate, apiKey, offPageVars, inflight, started, lastResp, crashed,
                   currentSlide, prevSlidesLength, ops, last>>

\* handleFileChange
HandleFileChange ==
    /\ step = "input" /\ inputType = "file"
    /\ \E f \in {"pdf", "txt"} : f # file /\ file' = f
    /\ UNCHANGED <<step, inputType, url, loading, error, presentation,
                   selectedTemplate, apiKey, offPageVars, inflight, started, lastResp, crashed,
                   currentSlide, prevSlidesLength, ops, last>>

\* The URL / File Upload tabs.
SetInputType ==
    /\ step = "input"
    /\ \E t \in {"url", "file"} : t # inputType /\ inputType' = t
    /\ UNCHANGED <<step, url, file, loading, error, presentation,
                   selectedTemplate, apiKey, offPageVars, inflight, started, lastResp, crashed,
                   currentSlide, prevSlidesLength, ops, last>>

\* handleNext in the input step: validate, then go to customize.
HandleNextInput ==
    /\ step = "input"
    /\ IF inputType = "url" /\ url = ""
       THEN error' = "Please enter a URL" /\ step' = step
       ELSE IF inputType = "file" /\ file = "none"
       THEN error' = "Please upload a file" /\ step' = step
       ELSE error' = "" /\ step' = "customize"
    /\ UNCHANGED <<inputType, url, file, loading, presentation,
                   selectedTemplate, apiKey, offPageVars, inflight, started, lastResp, crashed,
                   currentSlide, prevSlidesLength, ops, last>>

\* The Back button of the customize step.
BackToInput ==
    /\ step = "customize"
    /\ step' = "input"
    /\ UNCHANGED <<inputType, url, file, loading, error, presentation,
                   selectedTemplate, apiKey, offPageVars, inflight, started, lastResp, crashed,
                   currentSlide, prevSlidesLength, ops, last>>

StepOnGenerateStays == "customize"
\* handleNext in the customize step: setStep('generating') before the await.
StepOnGenerate == "generating"

\* The first await of generatePresentation.
FirstStage ==
    IF inputType = "url" THEN "scrape"
    ELSE IF file = "pdf" THEN "parse"
    ELSE "generate"

\* The fetches an attempt has sent when it reaches its first await: one to
\* /api/scrape or /api/parse-pdf (counted as content), or, for a text file,
\* the one to /api/generate.
FirstSent ==
    IF FirstStage = "generate" THEN [content |-> 0, generate |-> 1]
    ELSE [content |-> 1, generate |-> 0]

SendGenerateTwice(r) ==
    [r EXCEPT !.stage = "generate", !.sent.generate = @ + 2]
\* "2. Generate": after the content is in, the one fetch to /api/generate.
SendGenerate(r) ==
    [r EXCEPT !.stage = "generate", !.sent.generate = @ + 1]

\* handleNext in the customize step, up to generatePresentation's first await.
HandleNextCustomize ==
    /\ step = "customize"
    /\ started < MaxRequests
    /\ step' = StepOnGenerate
    /\ loading' = TRUE
    /\ error' = ""
    /\ started' = started + 1
    /\ inflight' = inflight \cup {[id |-> started + 1, stage |-> FirstStage, sent |-> FirstSent]}
    /\ UNCHANGED <<inputType, url, file, presentation, selectedTemplate, apiKey, offPageVars,
                   lastResp, crashed, currentSlide, prevSlidesLength, ops, last>>

CatchStepStays == "generating"
CatchStepResult == "result"
\* catch: setStep('input')
CatchStep == "input"

\* catch and finally of generatePresentation for request r.
Fail(r, message, upstream, response) ==
    /\ error' = message
    /\ step' = CatchStep
    /\ loading' = FALSE
    /\ inflight' = inflight \ {r}
    /\ lastResp' = [id |-> r.id, outcome |-> "error", stage |-> r.stage,
                    upstream |-> upstream, response |-> response,
                    before |-> presentation, sent |-> r.sent]
    /\ UNCHANGED <<inputType, url, file, presentation, selectedTemplate, apiKey, offPageVars,
                   started, crashed, currentSlide, prevSlidesLength, ops, last>>

\* The scrape or parse-pdf fetch settles: ok, not ok, or a network failure.
ContentResponds ==
    \E r \in inflight :
        /\ r.stage \in {"scrape", "parse"}
        /\ \E outcome \in {"ok", "not ok", "network"} :
              CASE outcome = "ok" ->
                     /\ inflight' = (inflight \ {r}) \cup {SendGenerate(r)}
                     /\ UNCHANGED <<step, inputType, url, file, loading, error,
                                    presentation, selectedTemplate, apiKey, offPageVars, started,
                                    lastResp, crashed, currentSlide,
                                    prevSlidesLength, ops, last>>
                [] outcome = "not ok" ->
                     Fail(r, IF r.stage = "scrape" THEN "Failed to scrape URL"
                             ELSE "Failed to parse PDF",
                          NoResponse.upstream, NoResponse.response)
                [] outcome = "network" ->
                     Fail(r, "Failed to fetch", NoResponse.upstream, NoResponse.response)

\* data.presentation is truthy
HasPresentation(data) ==
    "presentation" \in DOMAIN data /\ data.presentation # NullPresentation

\* The generate fetch settles with the route's response (page.tsx:143-173).
GenerateResponds ==
    \E r \in inflight :
        /\ r.stage = "generate"
        /\ \E upstream \in (IF Invokes(apiKey) THEN UpstreamOutcomes ELSE {NotInvoked}) :
              LET response == GenerateRoute(apiKey, upstream)
                  data == response.body
              IN IF response.status # 200
                 THEN Fail(r, "Failed to generate presentation", upstream, response)
                 ELSE IF data = NullPresentation
                 THEN Fail(r, "Cannot read properties of null", upstream, response)
                 ELSE IF ~HasPresentation(data)
                 THEN Fail(r, "Invalid response format", upstream, response)
                 ELSE /\ presentation' = data.presentation
                      /\ step' = "result"
                      /\ loading' = FALSE
                      /\ inflight' = inflight \ {r}
                      /\ lastResp' = [id |-> r.id, outcome |-> "ok", stage |-> r.stage,
                                      upstream |-> upstream, response |-> response,
                                      before |-> presentation, sent |-> r.sent]
                      \* the template mounts; slides.length throws without slides
                      /\ crashed' = ~IsPresentation(data.presentation)
                      /\ currentSlide' = 0
                      /\ prevSlidesLength' =
                            IF IsPresentation(data.presentation)
                            THEN Len(data.presentation.slides) ELSE 0
                      /\ UNCHANGED <<inputType, url, file, error, selectedTemplate,
                                     apiKey, offPageVars, started, ops, last>>

\* The generate fetch itself rejects (no response).
GenerateUnreachable ==
    \E r \in inflight :
        /\ r.stage = "generate"
        /\ Fail(r, "Failed to fetch", NoResponse.upstream, NoResponse.response)

\* The Create New button of the result step; the template unmounts.
CreateNew ==
    /\ step = "result" /\ presentation # NullPresentation /\ ~crashed
    /\ step' = "input"
    /\ currentSlide' = 0
    /\ prevSlidesLength' = 0
    /\ UNCHANGED <<inputType, url, file, loading, error, presentation,
                   selectedTemplate, apiKey, offPageVars, inflight, started, lastResp, crashed,
                   ops, last>>

PageInit ==
    /\ step = "input"
    /\ inputType = "url" /\ url = "" /\ file = "none"
    /\ loading = FALSE /\ error = ""
    /\ presentation = NullPresentation
    /\ selectedTemplate = "minimalist"
    /\ apiKey \in BOOLEAN
    /\ inflight = {} /\ started = 0
    /\ lastResp = NoResponse
    /\ crashed = FALSE
    /\ currentSlide = 0
    /\ prevSlidesLength = 0
    /\ ops = 0
    /\ last = NoOp
    /\ OffPageIdle

PageNext ==
    \/ HandleUrlChange \/ HandleFileChange \/ SetInputType
    \/ HandleNextInput \/ BackToInput \/ HandleNextCustomize
    \/ ContentResponds \/ GenerateResponds \/ GenerateUnreachable
    \/ CreateNew \/ SetSelectedTemplate

\* The page from its first render through synthesis attempts.
SpecPage == PageInit /\ [][PageNext]_vars

\* The fetches settle: a pending response or rejection is eventually delivered.
FairSpecPage ==
    /\ SpecPage
    /\ WF_vars(ContentResponds)
    /\ WF_vars(GenerateResponds \/ GenerateUnreachable)

\* ------------------------------------ Placeholder Resolver (spec.md 4.2)
\* The resolver's code is not among the sources; it is modelled from its
\* contract and algorithm in spec.md 4.2.
\*
\* A string is a sequence of pieces: plain text, a well-formed token
\* {{USER_IMAGE_n}}, a malformed token such as {{USER_IMAGE_x}}, or the text
\* of a local image reference.
Text == [kind |-> "text", n |-> 0]
Token(n) == [kind |-> "token", n |-> n]
Malformed == [kind |-> "malformed", n |-> 0]
Image(id) == [kind |-> "image", n |-> id]

\* The values of a slide tree, tagged by what typeof / Array.isArray tell.
Str(s) == [t |-> "str", v |-> s]
Num(n) == [t |-> "num", v |-> n]
Arr(a) == [t |-> "arr", v |-> a]
Rec(r) == [t |-> "rec", v |-> r]

\* "an ordered sequence of local image references (0-5 entries)"
MaxImages == 5

LocalImages == <<Image(50), Image(40), Image(30), Image(20), Image(10)>>
ImageLists == {SubSeq(LocalImages, 1, k) : k \in 0..MaxImages}

\* The position of the first well-formed token in a string, 0 when none.
FirstToken(s) ==
    IF \E i \in DOMAIN s : s[i].kind = "token"
    THEN CHOOSE i \in DOMAIN s :
            s[i].kind = "token" /\ \A j \in 1..(i - 1) : s[j].kind # "token"
    ELSE 0

ResolveStringAll(s, imgs) ==
    [i \in DOMAIN s |->
        IF s[i].kind = "token" /\ s[i].n - 1 \in 0..(Len(imgs) - 1)
        THEN imgs[s[i].n] ELSE s[i]]
ResolveStringBlank(s, imgs) ==
    LET i == FirstToken(s)
    IN IF i # 0 /\ s[i].n - 1 \in 0..(Len(imgs) - 1)
       THEN [s EXCEPT ![i] = imgs[s[i].n]]
       ELSE <<>>
\* The single match-and-replace rule: the first token is replaced by the
\* (N-1)-th image reference when that index exists; otherwise, and for a
\* string without a token, the string is returned as it is.
ResolveString(s, imgs) ==
    LET i == FirstToken(s)
    IN IF i # 0 /\ s[i].n - 1 \in 0..(Len(imgs) - 1)
       THEN [s EXCEPT ![i] = imgs[s[i].n]]
       ELSE s

ResolveValueTopLevelOnly(val, imgs) ==
    IF val.t = "rec"
    THEN [val EXCEPT !.v = [k \in DOMAIN val.v |->
            IF val.v[k].t = "str"
            THEN [val.v[k] EXCEPT !.v = ResolveString(val.v[k].v, imgs)]
            ELSE val.v[k]]]
    ELSE val
\* The recursive deep traversal: strings are resolved, arrays and nested
\* records are visited, other values pass through.
RECURSIVE ResolveValue(_, _)
ResolveValue(val, imgs) ==
    CASE val.t = "str" -> [val EXCEPT !.v = ResolveString(val.v, imgs)]
      [] val.t = "arr" ->
            [val EXCEPT !.v = [i \in DOMAIN val.v |-> ResolveValue(val.v[i], imgs)]]
      [] val.t = "rec" ->
            [val EXCEPT !.v = [k \in DOMAIN val.v |-> ResolveValue(val.v[k], imgs)]]
      [] OTHER -> val

\* The resolved Presentation: every slide resolved.
ResolvePresentation(p, imgs) ==
    [p EXCEPT !.slides = [i \in DOMAIN p.slides |-> ResolveValue(p.slides[i], imgs)]]

InputAfterResolveInPlace(p, imgs) == ResolvePresentation(p, imgs)
\* What the call leaves in its argument: "it does not mutate its input".
InputAfterResolve(p, imgs) == p

\* Whether the result shares objects with the input: "a full deep copy".
ResultSharesInput == FALSE

\* The strings the synthesized slides are built from.
InputStrings ==
    { <<Text>>, <<Token(1)>>, <<Token(2)>>, <<Token(6)>>, <<Malformed>>,
      <<Text, Token(2)>>, <<Token(2), Text, Token(1)>>, <<Token(3), Token(1)>> }

\* A slide with a string in a top-level field, in an array and in a nested record.
TreeSlide(a, b, c) ==
    Rec([type |-> Str(<<Text>>),
         image |-> Str(a),
         items |-> Arr(<<Str(b), Num(7)>>),
         left |-> Rec([title |-> Str(c), value |-> Num(3)])])

SynthesizedDecks ==
    {[title |-> "T", slides |-> <<>>]}
        \cup {[title |-> "T", slides |-> <<TreeSlide(a, b, c)>>] :
                 a \in InputStrings, b \in InputStrings, c \in InputStrings}

\* The page while its first attempt, for a URL, awaits the fetch of `stage`.
PageAwaiting(stage) ==
    /\ step = "generating"
    /\ inputType = "url" /\ url = "u" /\ file = "none"
    /\ loading = TRUE /\ error = ""
    /\ presentation = NullPresentation
    /\ selectedTemplate = "minimalist"
    /\ apiKey = TRUE
    /\ started = 1
    /\ inflight = {[id |-> 1, stage |-> stage,
                    sent |-> [content |-> 1,
                              generate |-> IF stage = "generate" THEN 1 ELSE 0]]}
    /\ lastResp = NoResponse
    /\ crashed = FALSE
    /\ currentSlide = 0 /\ prevSlidesLength = 0
    /\ ops = 0 /\ last = NoOp

\* The resolver runs once on the synthesized Presentation.
Resolve ==
    /\ synthesized # NullPresentation /\ resolved = NullPresentation
    /\ resolved' = ResolvePresentation(synthesized, images)
    /\ synthesized' = InputAfterResolve(synthesized, images)
    /\ UNCHANGED <<step, inputType, url, file, loading, error, presentation,
                   selectedTemplate, apiKey, inflight, started, lastResp, crashed,
                   currentSlide, prevSlidesLength, ops, last,
                   images, scrapeRequest, scrapeResult>>

\* The Deck Editor, which owns the resolved copy, deletes its first slide.
EditResolved ==
    /\ resolved # NullPresentation /\ resolved.slides # <<>>
    /\ resolved' = [resolved EXCEPT !.slides = Tail(@)]
    /\ synthesized' = IF ResultSharesInput
                      THEN [synthesized EXCEPT !.slides = Tail(@)]
                      ELSE synthesized
    /\ UNCHANGED <<step, inputType, url, file, loading, error, presentation,
                   selectedTemplate, apiKey, inflight, started, lastResp, crashed,
                   currentSlide, prevSlidesLength, ops, last,
                   images, scrapeRequest, scrapeResult>>

ResolverInit ==
    /\ PageAwaiting("generate")
    /\ synthesized \in SynthesizedDecks
    /\ images \in ImageLists
    /\ resolved = NullPresentation
    /\ scrapeRequest = NoScrape /\ scrapeResult = NoScrape

ResolverNext == Resolve \/ EditResolved

\* One run of the Placeholder Resolver on a synthesized deck.
SpecResolver == ResolverInit /\ [][ResolverNext]_vars

\* --------------------------------------- scrape route (api/scrape/route.ts)
\* A text is a sequence of runs: `len` repetitions of the character `ch`.
SP == " "
Whitespace == {SP, NL}
Run(ch, len) == [ch |-> ch, len |-> len]

\* s.length
RECURSIVE StrLen(_)
StrLen(s) == IF s = <<>> THEN 0 ELSE Head(s).len + StrLen(Tail(s))

\* The text after the whitespace that starts it.
RECURSIVE SkipWhitespace(_)
SkipWhitespace(s) ==
    IF s # <<>> /\ Head(s).ch \in Whitespace THEN SkipWhitespace(Tail(s)) ELSE s

CollapseWhitespaceKeeps(s) == s
\* s.replace(/\s+/g, ' '): every maximal stretch of whitespace becomes one space
RECURSIVE CollapseWhitespace(_)
CollapseWhitespace(s) ==
    IF s = <<>> THEN <<>>
    ELSE IF Head(s).ch \in Whitespace
    THEN <<Run(SP, 1)>> \o CollapseWhitespace(SkipWhitespace(s))
    ELSE <<Head(s)>> \o CollapseWhitespace(Tail(s))

\* The text before the whitespace that ends it.
RECURSIVE DropTrailingWhitespace(_)
DropTrailingWhitespace(s) ==
    IF s # <<>> /\ s[Len(s)].ch \in Whitespace
    THEN DropTrailingWhitespace(SubSeq(s, 1, Len(s) - 1)) ELSE s

\* s.trim()
TrimText(s) == DropTrailingWhitespace(SkipWhitespace(s))

\* s.substring(0, n)
RECURSIVE Substring(_, _)
Substring(s, n) ==
    IF s = <<>> \/ n <= 0 THEN <<>>
    ELSE IF Head(s).len <= n
    THEN <<Head(s)>> \o Substring(Tail(s), n - Head(s).len)
    ELSE <<Run(Head(s).ch, n)>>

\* "Limit to 2000 chars"
ContentLimit == 2000

\* .attr('content') of the first matching element: undefined without one
Absent == [present |-> FALSE, content |-> <<>>]
Attr(s) == [present |-> TRUE, content |-> s]

\* The value of a || b || ... || '': the first operand that is neither
\* undefined nor the empty string.
RECURSIVE OrChain(_)
OrChain(operands) ==
    IF operands = <<>> THEN <<>>
    ELSE IF Head(operands).present /\ Head(operands).content # <<>>
    THEN Head(operands).content
    ELSE OrChain(Tail(operands))

\* $('title').text(): the combined text of every title element
RECURSIVE CombinedText(_)
CombinedText(elements) ==
    IF elements = <<>> THEN <<>> ELSE Head(elements) \o CombinedText(Tail(elements))

TitleOperandsTitleFirst(page) ==
    <<Attr(CombinedText(page.titles)), page.ogTitle, page.twitterTitle>>
\* The operands of the title's || chain, in order.
TitleOperands(page) ==
    <<page.ogTitle, page.twitterTitle, Attr(CombinedText(page.titles))>>

DescriptionOperands(page) ==
    <<page.ogDescription, page.twitterDescription, page.metaDescription>>

ImageOperands(page) == <<page.ogImage, page.twitterImage>>

\* The loop over contentSelectors: the longest of the first elements' texts,
\* the earlier one on a tie.
RECURSIVE LongestContent(_, _)
LongestContent(candidates, mainContent) ==
    IF candidates = <<>> THEN mainContent
    ELSE LET content == Head(candidates)
         IN LongestContent(Tail(candidates),
                IF content # <<>> /\ StrLen(content) > StrLen(mainContent)
                THEN content ELSE mainContent)

\* "Clean up the content"
CleanContent(mainContent) ==
    Substring(TrimText(CollapseWhitespace(mainContent)), ContentLimit)

\* The texts the pages are built from.
Foo == <<Run("F", 1), Run("o", 2)>>
Icon == <<Run("I", 1), Run("c", 1)>>
OgText == <<Run("O", 1), Run("g", 1)>>
TwText == <<Run("T", 1), Run("w", 1)>>
Padded(s) == <<Run(SP, 2)>> \o s \o <<Run(NL, 1)>>

\* The head of a page: what the meta and title selectors find.
PageHeads ==
    [ogTitle : {Absent, Attr(<<>>), Attr(<<Run(SP, 1)>>), Attr(Padded(OgText))},
     twitterTitle : {Absent, Attr(TwText)},
     titles : {<<>>, <<Foo>>, <<Padded(Foo)>>, <<Foo, Icon>>},
     ogDescription : {Absent},
     twitterDescription : {Absent},
     metaDescription : {Absent, Attr(Padded(Foo))},
     ogImage : {Absent, Attr(Padded(Icon))},
     twitterImage : {Absent}]

\* The texts of the first article element and of the body.
PageBodies ==
    {[article |-> <<>>, body |-> <<>>],
     [article |-> <<Run("a", 5)>>,
      body |-> <<Run(SP, 3), Run("a", 5), Run(NL, 2), Run(SP, 1), Run("b", 4), Run(SP, 2)>>],
     [article |-> <<Run("a", ContentLimit - 1)>>,
      body |-> <<Run(NL, 1), Run("a", ContentLimit - 1), Run(SP, 2), Run("b", 10)>>],
     [article |-> <<>>, body |-> <<Run(NL, ContentLimit + 500)>>],
     [article |-> <<>>, body |-> <<Run("a", ContentLimit + 1)>>],
     [article |-> <<Run("b", ContentLimit)>>,
      body |-> <<Run("a", 1), Run(SP, 1), Run("b", ContentLimit)>>]}

Pages == {[head |-> h, content |-> c] : h \in PageHeads, c \in PageBodies}

\* The texts the selectors article, main, [role="main"], .post-content,
\* .article-content, .entry-content and body give; the pages have no element
\* for the five in between.
ContentCandidates(page) ==
    <<page.content.article, <<>>, <<>>, <<>>, <<>>, <<>>, page.content.body>>

BlankPage ==
    [head |-> [ogTitle |-> Absent, twitterTitle |-> Absent, titles |-> <<>>,
               ogDescription |-> Absent, twitterDescription |-> Absent,
               metaDescription |-> Absent, ogImage |-> Absent, twitterImage |-> Absent],
     content |-> [article |-> <<>>, body |-> <<>>]]

\* What the target site does when fetched: the fetch rejects, or it resolves
\* with a status that is not 2xx, or with a page.
Sites ==
    {[kind |-> "network", status |-> 0, statusText |-> "", page |-> BlankPage]}
        \cup {[kind |-> "status", status |-> st, statusText |-> "Not OK", page |-> BlankPage] :
                 st \in {304, 404, 503, 999}}
        \cup {[kind |-> "page", status |-> 200, statusText |-> "OK", page |-> p] : p \in Pages}

\* The url of a request body that has none.
UndefinedUrl == "<undefined>"

\* new URL(url).toString() for the strings that parse
Hrefs == [u \in {"https://example.com"} |-> "https://example.com/"]

\* The requests: a body that is not JSON, a body without a usable url (for
\* a site that would answer), and a valid url for each behaviour of the site.
ScrapeRequests ==
    {[bodyOk |-> FALSE, url |-> "https://example.com", site |-> st] :
        st \in {s \in Sites : s.kind = "status"}}
      \cup {[bodyOk |-> TRUE, url |-> u, site |-> st] :
                u \in {UndefinedUrl, "", "not a url"},
                st \in {s \in Sites : s.kind = "status"}}
      \cup {[bodyOk |-> TRUE, url |-> "https://example.com", site |-> st] : st \in Sites}

\* response.ok
ResponseOk(status) == status \in 200..299

\* NextResponse.json(body, { status }) throws a RangeError for a status
\* outside 200..599 and a TypeError for a status that allows no body.
ResponseInitThrows(status) == status \notin 200..599 \/ status \in {204, 205, 304}

\* catch: the response to anything thrown inside the try block
CaughtResponse == [status |-> 500, body |-> [error |-> "Failed to scrape URL"]]

\* The response's title, description, image, content and url for a page.
ScrapedFields(page, validUrl) ==
    [title |-> TrimText(OrChain(TitleOperands(page.head))),
     description |-> TrimText(OrChain(DescriptionOperands(page.head))),
     image |-> TrimText(OrChain(ImageOperands(page.head))),
     content |-> CleanContent(LongestContent(ContentCandidates(page), <<>>)),
     url |-> Hrefs[validUrl]]

\* POST: the response, and the number of outbound requests made.
ScrapeRoute(req) ==
    IF ~req.bodyOk
    THEN [response |-> CaughtResponse, fetched |-> 0]
    ELSE IF req.url \in {UndefinedUrl, ""}
    THEN [response |-> [status |-> 400, body |-> [error |-> "URL is required"]],
          fetched |-> 0]
    ELSE IF req.url \notin DOMAIN Hrefs
    THEN [response |-> [status |-> 400, body |-> [error |-> "Invalid URL format"]],
          fetched |-> 0]
    ELSE IF req.site.kind = "network"
    THEN [response |-> CaughtResponse, fetched |-> 1]
    ELSE IF ~ResponseOk(req.site.status)
    THEN [response |->
             IF ResponseInitThrows(req.site.status) THEN CaughtResponse
             ELSE [status |-> req.site.status,
                   body |-> [error |-> "Failed to fetch URL: ",
                             statusText |-> req.site.statusText]],
          fetched |-> 1]
    ELSE [response |-> [status |-> 200, body |-> ScrapedFields(req.site.page, req.url)],
          fetched |-> 1]

\* The route handles the request.
ScrapePost ==
    /\ scrapeRequest # NoScrape /\ scrapeResult = NoScrape
    /\ scrapeResult' = ScrapeRoute(scrapeRequest)
    /\ UNCHANGED <<step, inputType, url, file, loading, error, presentation,
                   selectedTemplate, apiKey, inflight, started, lastResp, crashed,
                   currentSlide, prevSlidesLength, ops, last,
                   synthesized, images, resolved, scrapeRequest>>

ScrapeInit ==
    /\ PageAwaiting("scrape")
    /\ synthesized = NullPresentation /\ images = <<>> /\ resolved = NullPresentation
    /\ scrapeRequest \in ScrapeRequests
    /\ scrapeResult = NoScrape

ScrapeNext == ScrapePost

\* One request to the scrape route.
SpecScrape == ScrapeInit /\ [][ScrapeNext]_vars

\* ------------------------- the earlier MinimalistTemplate (page.tsx:758-800)
\* The copy of the template kept in page.tsx has the clamp effect only; there
\* is no auto-navigate effect and no prevSlidesLength ref.
EarlierCommit(newSlides) ==
    /\ presentation' = [presentation EXCEPT !.slides = newSlides]
    /\ currentSlide' = ClampEffect(currentSlide, Len(newSlides))
    /\ ops' = ops + 1
    /\ UNCHANGED <<pageVars, selectedTemplate, crashed, prevSlidesLength>>

EarlierNavigate(target, op) ==
    /\ currentSlide' = ClampEffect(target, Len(Slides))
    /\ last' = Record(op, currentSlide, "")
    /\ UNCHANGED <<pageVars, presentation, selectedTemplate, crashed,
                   prevSlidesLength, ops>>

EarlierNextSlide ==
    /\ Mounted
    /\ EarlierNavigate(nextSlide(currentSlide, Len(Slides)), "next")

EarlierPrevSlide ==
    /\ Mounted
    /\ EarlierNavigate(prevSlide(currentSlide, Len(Slides)), "prev")

EarlierInsert ==
    /\ Mounted
    /\ ops < MaxOps /\ Len(Slides) < MaxSlides
    /\ \E afterIndex \in -1..(Len(Slides) - 1) :
          /\ last' = Record("insert", afterIndex, "")
          /\ EarlierCommit(InsertSlide(Slides, afterIndex, NewTextSlide))

EarlierDelete ==
    /\ Mounted
    /\ ops < MaxOps
    /\ \E index \in -1..Len(Slides) :
          /\ last' = Record("delete", index, "")
          /\ EarlierCommit(DeleteSlide(Slides, index))

EarlierNext == EarlierNextSlide \/ EarlierPrevSlide \/ EarlierInsert \/ EarlierDelete

SpecEarlier == EditorInit /\ [][EarlierNext]_vars

\* ------------------------------------------- the result step (page.tsx:350-382)
\* The editing session together with the page's own controls of the result
\* step: the style select and the "Create New" link.
SessionNext == EditorNext \/ CreateNew

SpecSession == EditorInit /\ [][SessionNext]_vars

\* -------------------------- slide renderers in full (part_004:248-531, 1462-1553)
\* Slide text here is a sequence of pieces: a word, a space, the double quote
\* or the em dash, so that what a renderer adds around a field and what its
\* onChange strips again can differ.
QUOTE == "<quote>"
DASH == "<dash>"

\* slide.field || ''
TextOr(slide, field) == IF field \in DOMAIN slide THEN slide[field] ELSE <<>>

\* ${slide.field} inside a template literal: an absent field prints as the
\* word undefined.
Interpolated(slide, field) ==
    IF field \in DOMAIN slide THEN slide[field] ELSE <<"undefined">>

\* val.replace(/^"|"$/g, '')
Unquote(val) ==
    LET a == IF val # <<>> /\ Head(val) = QUOTE THEN Tail(val) ELSE val
    IN IF a # <<>> /\ a[Len(a)] = QUOTE THEN SubSeq(a, 1, Len(a) - 1) ELSE a

RECURSIVE SkipSpaces(_)
SkipSpaces(val) ==
    IF val # <<>> /\ Head(val) = SP THEN SkipSpaces(Tail(val)) ELSE val

\* val.replace(/^—\s*/, '')
Undash(val) == IF val # <<>> /\ Head(val) = DASH THEN SkipSpaces(Tail(val)) ELSE val

\* Array.isArray(slide.left)
IsArray(slide, side) == side \in DOMAIN slide /\ slide[side].t = "arr"

\* leftData?.title || '' with leftData = slide.left as a record or undefined
DataProp(slide, side, prop) ==
    IF side \in DOMAIN slide /\ slide[side].t = "rec" /\ prop \in DOMAIN slide[side].v
    THEN slide[side].v[prop] ELSE <<>>

IndexKeys == <<"0", "1", "2">>

\* {...leftData}: nothing for undefined, the properties of a record, the
\* index properties of an array.
SpreadData(slide, side) ==
    IF side \notin DOMAIN slide THEN EmptyRecord
    ELSE IF slide[side].t = "rec" THEN slide[side].v
    ELSE [k \in {IndexKeys[i] : i \in DOMAIN slide[side].v} |->
            slide[side].v[CHOOSE i \in DOMAIN slide[side].v : IndexKeys[i] = k]]

\* One EditableText of a rendered slide: its customization key, the styled
\* font size, the text it shows, and what its onChange commits (kind, field,
\* and the array index or record property for left / right).
Editable(key, style, shown, kind, field, i, prop) ==
    [key |-> key, style |-> style, shown |-> shown,
     kind |-> kind, field |-> field, i |-> i, prop |-> prop]

\* value={slide.field || ''} onChange={(val) => handleEdit(field, val)}
Plain(key, style, shown, field) == Editable(key, style, shown, "plain", field, 0, "")

ItemKeys == [left |-> <<"left_0", "left_1", "left_2">>,
             right |-> <<"right_0", "right_1", "right_2">>]

\* Array.isArray(slide.left) && slide.left.map((item, i) => <EditableText .../>)
ColumnItems(slide, side) ==
    IF IsArray(slide, side)
    THEN {Editable(ItemKeys[side][i], 20, slide[side].v[i], "item", side, i, "") :
            i \in DOMAIN slide[side].v}
    ELSE {}

\* MinimalistSlide's switch (slide.type).
MinimalistEditables(slide) ==
    CASE slide.type = "title" ->
           {Plain("title", 64, TextOr(slide, "title"), "title"),
            Plain("subtitle", 12, TextOr(slide, "subtitle"), "subtitle")}
      [] slide.type = "statement" ->
           {Plain("text", 64, TextOr(slide, "text"), "text")}
      [] slide.type = "content" ->
           {Plain("title", 28, TextOr(slide, "title"), "title"),
            Plain("text", 22, TextOr(slide, "text"), "text")}
      [] slide.type = "image" ->
           {Plain("caption", 16, TextOr(slide, "caption"), "caption")}
      [] slide.type = "two-column" ->
           {Plain("title", 24, TextOr(slide, "title"), "title")}
             \cup ColumnItems(slide, "left") \cup ColumnItems(slide, "right")
      [] slide.type = "quote" ->
           {Editable("text", 40, <<QUOTE>> \o Interpolated(slide, "text") \o <<QUOTE>>,
                     "unquote", "text", 0, ""),
            Editable("author", 14, <<DASH, SP>> \o Interpolated(slide, "author"),
                     "undash", "author", 0, "")}
      [] slide.type = "end" ->
           {Plain("text", 72,
                  IF TextOr(slide, "text") # <<>> THEN slide.text ELSE TextOr(slide, "title"),
                  IF TextOr(slide, "text") # <<>> THEN "text" ELSE "title")}
      [] OTHER ->
           {Plain("title", 24, TextOr(slide, "title"), "title"),
            Plain("text", 64,
                  IF TextOr(slide, "text") # <<>> THEN slide.text ELSE TextOr(slide, "detail"),
                  IF TextOr(slide, "text") # <<>> THEN "text" ELSE "detail")}

PropKeys == [left |-> [title |-> "leftTitle", value |-> "leftValue", label |-> "leftLabel"],
             right |-> [title |-> "rightTitle", value |-> "rightValue", label |-> "rightLabel"]]
PropStyles == [title |-> 16, value |-> 100, label |-> 24]

\* MaximalistSlide, case 'split'.
SplitEditables(slide) ==
    {Editable(PropKeys[side][prop], PropStyles[prop], DataProp(slide, side, prop),
              "prop", side, 0, prop) :
       side \in {"left", "right"}, prop \in {"title", "value", "label"}}

\* The value an EditableText's onChange hands to handleEdit for the text val.
Committed(slide, e, val) ==
    CASE e.kind = "plain" -> val
      [] e.kind = "unquote" -> Unquote(val)
      [] e.kind = "undash" -> Undash(val)
      [] e.kind = "item" -> Arr([slide[e.field].v EXCEPT ![e.i] = val])
      [] e.kind = "prop" -> Rec(Spread(SpreadData(slide, e.field), e.prop, val))

\* The renderer of the selected template for the displayed slide.
Editables(template, slide) ==
    CASE template = "minimalist" -> MinimalistEditables(slide)
      [] template = "maximalist" /\ slide.type = "split" -> SplitEditables(slide)

SplitData(t, v, l) == Rec([title |-> <<t>>, value |-> <<v>>, label |-> <<l>>])

\* The slides a synthesized deck can hold, by the template that shows them:
\* every case of MinimalistSlide's switch, with optional fields present and
\* absent, and the split slide of MaximalistSlide.
RenderedSlides ==
    [minimalist |->
       {[type |-> "title", title |-> <<"A">>, subtitle |-> <<"a">>],
        [type |-> "statement", text |-> <<"B">>],
        [type |-> "content", title |-> <<"C">>, text |-> <<"c">>],
        [type |-> "image", image |-> <<"img">>, caption |-> <<"cap">>],
        [type |-> "image", image |-> <<"img">>],
        [type |-> "two-column", title |-> <<"D">>,
         left |-> Arr(<<<<"L0">>, <<"L1">>>>), right |-> Arr(<<<<"R0">>>>)],
        [type |-> "quote", text |-> <<"Q">>, author |-> <<"Bob">>],
        [type |-> "quote", text |-> <<"Q">>],
        [type |-> "quote", author |-> <<"Bob">>],
        [type |-> "end", text |-> <<"Thanks">>],
        [type |-> "end", title |-> <<"Bye">>],
        [type |-> "big-number", number |-> <<"42">>, detail |-> <<"d">>]},
     maximalist |->
       {[type |-> "split", left |-> SplitData("L", "1", "l"),
                           right |-> SplitData("R", "2", "r")],
        [type |-> "split"],
        [type |-> "split", left |-> Arr(<<<<"L0">>>>), right |-> Arr(<<<<"R0">>>>)]}]

Displayed == Slides[currentSlide + 1]

\* setPresentation with new slides from a renderer's onEdit, then the
\* template's effects.
CommitEdit(newSlides) ==
    /\ presentation' = [presentation EXCEPT !.slides = newSlides]
    /\ currentSlide' = RunEffects(currentSlide, Len(newSlides), prevSlidesLength)
    /\ prevSlidesLength' = Len(newSlides)
    /\ UNCHANGED <<pageVars, selectedTemplate, crashed, ops>>

\* EditableText's onBlur (part_004:203-206) fires whether or not the text was
\* changed: textContent is the text shown, or what the user typed.
RenderBlur ==
    /\ Mounted /\ InRange(Slides, currentSlide)
    /\ \E e \in Editables(selectedTemplate, Displayed) : \E val \in {e.shown, <<"Z">>} :
          /\ last' = Record(IF val = e.shown THEN "blur" ELSE "edit", currentSlide, e.key)
          /\ CommitEdit(EditField(Slides, renderSlideOnEdit(currentSlide), e.field,
                                  Committed(Displayed, e, val)))

RenderInit ==
    /\ step = "result"
    /\ inputType = "url" /\ url = "u" /\ file = "none"
    /\ loading = FALSE /\ error = ""
    /\ selectedTemplate \in DOMAIN RenderedSlides
    /\ \E slide \in RenderedSlides[selectedTemplate] :
          presentation = [title |-> "T", slides |-> <<slide>>]
    /\ apiKey = TRUE
    /\ inflight = {} /\ started = 1
    /\ lastResp = [NoResponse EXCEPT !.id = 1, !.outcome = "ok", !.stage = "generate",
                                     !.sent = [content |-> 1, generate |-> 1]]
    /\ crashed = FALSE
    /\ currentSlide = 0
    /\ prevSlidesLength = 1
    /\ ops = 0
    /\ last = NoOp
    /\ OffPageIdle

RenderNext == RenderBlur

\* Text editing on one rendered slide.
SpecRender == RenderInit /\ [][RenderNext]_vars

\* The customization clicks of a run stay on the elements styled at most
\* MaxFontSize, with sizes up to MaxFontSize and rotations up to MaxRotation.
Customized(e) == e.style <= MaxFontSize

\* EditableText's A- / A+ buttons on a rendered element.
RenderFontSizeClick ==
    /\ Mounted /\ InRange(Slides, currentSlide)
    /\ \E e \in Editables(selectedTemplate, Displayed), dir \in {-1, 1} :
          LET size == ButtonFontSize(CustomValue(Displayed, "fontSizes", e.key), e.style, dir)
          IN /\ Customized(e) /\ size \in (-MaxFontSize)..MaxFontSize
             /\ last' = Record("fontSizes", currentSlide, e.key)
             /\ CommitEdit(EditField(Slides, renderSlideOnEdit(currentSlide), "fontSizes",
                                     updateFS(Displayed, e.key, size)))

\* EditableText's rotate buttons on a rendered element.
RenderRotationClick ==
    /\ Mounted /\ InRange(Slides, currentSlide)
    /\ \E e \in Editables(selectedTemplate, Displayed), dir \in {-1, 1} :
          LET deg == ButtonRotation(CustomValue(Displayed, "rotations", e.key), dir)
          IN /\ Customized(e) /\ deg \in (-MaxRotation)..MaxRotation
             /\ last' = Record("rotations", currentSlide, e.key)
             /\ CommitEdit(EditField(Slides, renderSlideOnEdit(currentSlide), "rotations",
                                     updateRot(Displayed, e.key, deg)))

CustomizeNext == RenderFontSizeClick \/ RenderRotationClick

\* Font size and rotation clicks on one rendered slide.
SpecCustomize == RenderInit /\ [][CustomizeNext]_vars

\* ====================================================== claims on the page
\* A step in which a generatePresentation call completes.
Completes == lastResp'.id # lastResp.id

\* C7: the lifecycle goes input/customize -> generating -> result on success
\* and generating -> input on error: every synthesis attempt that starts ends
\* in the result step with a presentation set, or in the input step with a
\* non-empty error message, and the session is never left in the generating
\* step once the attempt has completed.
C7_Lifecycle ==
    /\ [][/\ (step' = "generating" /\ step # "generating") =>
                 (step = "customize" /\ started' = started + 1)
          /\ (step = "generating" /\ step' # "generating") => Completes
          /\ Completes =>
                 \/ /\ lastResp'.outcome = "ok"
                    /\ step' = "result" /\ presentation' # NullPresentation
                 \/ /\ lastResp'.outcome = "error"
                    /\ step' = "input" /\ error' # ""
          /\ (Completes /\ inflight' = {}) => (step' # "generating" /\ ~loading')]_vars
    /\ \A n \in 1..MaxRequests :
          (started = n /\ inflight # {}) ~> (lastResp.id = n /\ step # "generating")

\* C7's case: a second attempt was started and ended in the result step.
C7_Witness ==
    /\ started = 2 /\ lastResp.id = 2 /\ lastResp.outcome = "ok"
    /\ step = "result" /\ inflight = {}

JsonReply(t) ==
    \E d \in DOMAIN JsonDocs :
        Trim(t) \in { <<d>>,
                      <<FENCE, "json", NL, d, NL, FENCE>>,
                      <<FENCE, NL, d, NL, FENCE>> }

\* C9: when the generation service returns text that is not valid JSON, the
\* synthesis fails with a format error, no presentation is returned, and the
\* deck held before the attempt is left unchanged.
C9_InvalidJsonFails ==
    [][(/\ Completes
        /\ lastResp'.stage = "generate" /\ apiKey
        /\ lastResp'.upstream.kind = "text"
        /\ ~JsonReply(lastResp'.upstream.text)) =>
          /\ lastResp'.response.status = 500
          /\ lastResp'.response.body = [error |-> "Failed to generate valid presentation data"]
          /\ lastResp'.outcome = "error"
          /\ presentation' = presentation
          /\ step' = "input" /\ error' # ""]_vars

\* C9's case: a deck was held, and a later attempt got a reply that is not JSON.
C9_Witness ==
    /\ lastResp.outcome = "error" /\ lastResp.upstream.kind = "text"
    /\ ~JsonReply(lastResp.upstream.text)
    /\ lastResp.before # NullPresentation /\ presentation = lastResp.before
    /\ step = "input"

\* C10: synthesis is all-or-nothing: the live deck is either absent or a
\* complete Presentation (a title and a slide sequence); a JSON response that
\* is not of shape {presentation: {title, slides}} never becomes the live deck.
C10_AllOrNothing ==
    presentation # NullPresentation => IsPresentation(presentation)

\* The fetches request `id` has sent so far, as the pending requests S show.
SentBy(S, id) ==
    IF \E r \in S : r.id = id
    THEN LET r == CHOOSE q \in S : q.id = id IN r.sent.content + r.sent.generate
    ELSE 0

\* A step in which a fetch goes out to one of the endpoints.
SendsFetch == \E r \in inflight' : SentBy(inflight', r.id) > SentBy(inflight, r.id)

\* C11: a failed scrape, document-parse or generation call aborts the attempt
\* and is never retried automatically: an attempt sends at most one request to
\* the scrape/parse endpoint and at most one to the generate endpoint, a
\* failure leaves no request of the attempt pending, and after a failure the
\* next request goes out only with the user's next generate action.
C11_NoAutomaticRetry ==
    [][/\ \A r \in inflight' : r.sent.content <= 1 /\ r.sent.generate <= 1
       /\ lastResp'.sent.content <= 1 /\ lastResp'.sent.generate <= 1
       /\ (Completes /\ lastResp'.outcome = "error") =>
              /\ ~SendsFetch
              /\ \A r \in inflight' : r.id # lastResp'.id
       /\ SendsFetch =>
              \/ step = "customize" /\ started' = started + 1
              \/ /\ lastResp' = lastResp
                 /\ \E r \in inflight : r.stage \in {"scrape", "parse"}]_vars

\* C11's case: an attempt failed after its scrape and its generate request,
\* and the user started another attempt, which is now waiting.
C11_Witness ==
    /\ lastResp.outcome = "error" /\ lastResp.id = 1
    /\ lastResp.sent = [content |-> 1, generate |-> 1]
    /\ started = 2 /\ \E r \in inflight : r.id = 2 /\ r.sent.content = 1

\* The two reports of a thrown upstream Error.
CredentialErrorResponse(resp) ==
    resp.status = 401 /\ resp.body = [error |-> "Invalid API key"]

UpstreamErrorResponse(resp, message) ==
    /\ resp.status = 500
    /\ DOMAIN resp.body = {"error", "cause"}
    /\ resp.body.error = "Failed to generate presentation: "
    /\ Includes(resp.body.cause, message)

C13_MissingCredential ==
    [][~apiKey =>
          /\ lastResp'.upstream = NotInvoked
          /\ (Completes /\ lastResp'.stage = "generate"
                  /\ lastResp'.response # NoResponse.response) =>
                 /\ lastResp'.response =
                       [status |-> 500, body |-> [error |-> "Gemini API key not configured"]]
                 /\ lastResp'.outcome = "error"
                 /\ presentation' = presentation]_vars

\* C13's case: without a key, a generate request was answered by the route.
C13_Witness ==
    /\ ~apiKey /\ lastResp.stage = "generate" /\ lastResp.outcome = "error"
    /\ lastResp.response.status = 500
    /\ lastResp.response.body = [error |-> "Gemini API key not configured"]
    /\ lastResp.upstream = NotInvoked

\* ================================================ claims on the resolver
\* The step in which the resolver returns.
Resolves == resolved = NullPresentation /\ resolved' # NullPresentation

\* Is the string exactly one token {{USER_IMAGE_N}} with N positive?
IsTokenString(s) == Len(s) = 1 /\ s[1].kind = "token" /\ s[1].n >= 1

\* Every string of the tree `inV` that is a token holds, in `outV`, the
\* (N-1)-th image when N-1 < Len(imgs), and the token otherwise.
RECURSIVE TokenFieldsResolved(_, _, _)
TokenFieldsResolved(inV, outV, imgs) ==
    CASE inV.t = "str" ->
            IsTokenString(inV.v) =>
                outV = Str(IF inV.v[1].n - 1 < Len(imgs)
                           THEN <<imgs[inV.v[1].n]>> ELSE inV.v)
      [] inV.t \in {"arr", "rec"} ->
            /\ outV.t = inV.t /\ DOMAIN outV.v = DOMAIN inV.v
            /\ \A k \in DOMAIN inV.v : TokenFieldsResolved(inV.v[k], outV.v[k], imgs)
      [] OTHER -> TRUE

\* C14: every string value anywhere in the slide tree (top-level field,
\* array element, property of a nested record) that matches
\* {{USER_IMAGE_N}}, N positive, holds in the resolved Presentation the
\* (N-1)-th local image reference when N-1 is less than the number of
\* images, and the original token verbatim otherwise.
C14_TokensResolvedEverywhere ==
    [][Resolves =>
          /\ DOMAIN resolved'.slides = DOMAIN synthesized.slides
          /\ \A i \in DOMAIN synthesized.slides :
                TokenFieldsResolved(synthesized.slides[i], resolved'.slides[i], images)]_vars

\* C14's case: with two images, {{USER_IMAGE_2}} in an array element and in
\* a nested record became the second image, and {{USER_IMAGE_6}} stayed.
C14_Witness ==
    /\ Len(images) = 2 /\ resolved # NullPresentation /\ resolved.slides # <<>>
    /\ synthesized.slides = <<TreeSlide(<<Token(6)>>, <<Token(2)>>, <<Token(2)>>)>>
    /\ resolved.slides[1].v.image.v = <<Token(6)>>
    /\ resolved.slides[1].v.items.v[1].v = <<Image(40)>>
    /\ resolved.slides[1].v.left.v.title.v = <<Image(40)>>

\* Does the tree hold a well-formed token anywhere?
RECURSIVE HasToken(_)
HasToken(val) ==
    CASE val.t = "str" -> \E i \in DOMAIN val.v : val.v[i].kind = "token"
      [] val.t \in {"arr", "rec"} -> \E k \in DOMAIN val.v : HasToken(val.v[k])
      [] OTHER -> FALSE

\* C15: resolving a Presentation that contains no {{USER_IMAGE_N}} token
\* returns a value equal to the input, for every image list of 0 to 5 entries.
C15_NoTokenRoundTrip ==
    [][(Resolves /\ \A i \in DOMAIN synthesized.slides : ~HasToken(synthesized.slides[i]))
          => resolved' = synthesized]_vars

\* C15's case: a deck of plain and malformed strings, resolved with 5 images.
C15_Witness ==
    /\ Len(images) = MaxImages
    /\ synthesized.slides = <<TreeSlide(<<Text>>, <<Malformed>>, <<Text>>)>>
    /\ resolved = synthesized

TokenPositions(s) == {i \in DOMAIN s : s[i].kind = "token"}

\* In every string of `inV` with more than one token, `outV` differs at most
\* at the first token, which is resolved when its image exists.
RECURSIVE OnlyFirstResolved(_, _, _)
OnlyFirstResolved(inV, outV, imgs) ==
    CASE inV.t = "str" ->
            Cardinality(TokenPositions(inV.v)) > 1 =>
                LET f == CHOOSE i \in TokenPositions(inV.v) :
                            \A j \in TokenPositions(inV.v) : i <= j
                IN /\ outV.t = "str" /\ Len(outV.v) = Len(inV.v)
                   /\ \A j \in DOMAIN inV.v : j # f => outV.v[j] = inV.v[j]
                   /\ outV.v[f] = IF inV.v[f].n - 1 \in 0..(Len(imgs) - 1)
                                  THEN imgs[inV.v[f].n] ELSE inV.v[f]
      [] inV.t \in {"arr", "rec"} ->
            /\ outV.t = inV.t /\ DOMAIN outV.v = DOMAIN inV.v
            /\ \A k \in DOMAIN inV.v : OnlyFirstResolved(inV.v[k], outV.v[k], imgs)
      [] OTHER -> TRUE

\* C17: in a string that contains more than one placeholder token, the
\* resolver resolves only the first occurrence and leaves every later
\* occurrence in that string verbatim.
C17_OnlyFirstOccurrence ==
    [][Resolves =>
          /\ DOMAIN resolved'.slides = DOMAIN synthesized.slides
          /\ \A i \in DOMAIN synthesized.slides :
                OnlyFirstResolved(synthesized.slides[i], resolved'.slides[i], images)]_vars

\* C17's case: {{USER_IMAGE_2}} text {{USER_IMAGE_1}} with two images: the
\* first token became the second image, the later token stayed.
C17_Witness ==
    /\ Len(images) = 2 /\ resolved # NullPresentation /\ resolved.slides # <<>>
    /\ synthesized.slides[1].v.image.v = <<Token(2), Text, Token(1)>>
    /\ resolved.slides[1].v.image.v = <<Image(40), Text, Token(1)>>

\* ============================================ claims on the scrape route
\* The route answered with the scraped fields.
ScrapeSucceeded ==
    scrapeResult # NoScrape /\ "title" \in DOMAIN scrapeResult.response.body

NonEmpty(attr) == attr.present /\ attr.content # <<>>

NoOpenGraphTags(head) ==
    ~head.ogTitle.present /\ ~head.ogDescription.present /\ ~head.ogImage.present

\* The first non-empty of og:title, twitter:title and the <title> text.
FirstNonEmptyTitle(head) ==
    IF NonEmpty(head.ogTitle) THEN head.ogTitle.content
    ELSE IF NonEmpty(head.twitterTitle) THEN head.twitterTitle.content
    ELSE CombinedText(head.titles)

\* C18 as stated: the title is the page's <title> text whenever the page has
\* no Open Graph tags, and in general the first non-empty of og:title,
\* twitter:title, <title>, else the empty string (each without its
\* surrounding whitespace).
C18_TitleWithoutOpenGraph ==
    ScrapeSucceeded =>
        LET head == scrapeRequest.site.page.head
            title == scrapeResult.response.body.title
        IN /\ NoOpenGraphTags(head) => title = TrimText(CombinedText(head.titles))
           /\ title = TrimText(FirstNonEmptyTitle(head))

\* C18, amended: the title is the trimmed <title> text whenever the page has
\* neither a non-empty og:title nor a non-empty twitter:title, and in general
\* the first non-empty of og:title, twitter:title and the <title> text,
\* trimmed, else the empty string.
C18_TitlePrecedence ==
    ScrapeSucceeded =>
        LET head == scrapeRequest.site.page.head
            title == scrapeResult.response.body.title
        IN /\ (~NonEmpty(head.ogTitle) /\ ~NonEmpty(head.twitterTitle)) =>
                 title = TrimText(CombinedText(head.titles))
           /\ title = TrimText(FirstNonEmptyTitle(head))

\* C18's case: a page with <title> Foo </title>, an og:image, and neither
\* og:title nor twitter:title yields the title Foo.
C18_Witness ==
    /\ ScrapeSucceeded
    /\ scrapeRequest.site.page.head.ogTitle = Absent
    /\ scrapeRequest.site.page.head.twitterTitle = Absent
    /\ scrapeRequest.site.page.head.ogImage # Absent
    /\ scrapeRequest.site.page.head.titles = <<Padded(Foo)>>
    /\ scrapeResult.response.body.title = Foo

\* C19: every successful content fetch returns a content string of at most
\* 2000 characters in which no two whitespace characters are adjacent and
\* which has no leading whitespace.
C19_ContentCleaned ==
    ScrapeSucceeded =>
        LET c == scrapeResult.response.body.content
        IN /\ StrLen(c) <= ContentLimit
           /\ \A i \in DOMAIN c :
                 /\ c[i].len >= 1
                 /\ c[i].ch \in Whitespace =>
                        /\ c[i].len = 1
                        /\ i < Len(c) => c[i + 1].ch \notin Whitespace
           /\ c # <<>> => c[1].ch \notin Whitespace

\* C19's case: a body of more than 2000 characters with leading and doubled
\* whitespace was cut to 2000 characters.
C19_Witness ==
    /\ ScrapeSucceeded
    /\ scrapeRequest.site.page.content.body =
          <<Run(NL, 1), Run("a", ContentLimit - 1), Run(SP, 2), Run("b", 10)>>
    /\ scrapeResult.response.body.content = <<Run("a", ContentLimit - 1), Run(SP, 1)>>
    /\ StrLen(scrapeResult.response.body.content) = ContentLimit

\* C20: content fetch reports an error and returns no scraped fields in each
\* failure case: a missing URL or a string that is not a valid URL yields 400
\* before any outbound request is made; a non-2xx upstream response yields an
\* error carrying the upstream status; a network failure or any other
\* exception yields 500.
C20_FailureResponses ==
    scrapeResult # NoScrape =>
        LET req == scrapeRequest
            res == scrapeResult.response
            isError == DOMAIN res.body \subseteq {"error", "statusText"}
                          /\ "error" \in DOMAIN res.body
            valid == req.bodyOk /\ req.url \in DOMAIN Hrefs
        IN /\ (req.bodyOk /\ ~valid) =>
                 res.status = 400 /\ isError /\ scrapeResult.fetched = 0
           /\ (valid /\ req.site.kind = "status") =>
                 res.status = req.site.status /\ isError
           /\ (valid /\ req.site.kind = "network") => res.status = 500 /\ isError
           /\ ~req.bodyOk => res.status = 500 /\ isError

\* ==================================================== claims on the editor
\* A step that is the deck-changing operation `op` (the history names it).
Did(op) == last'.op = op /\ ops' = ops + 1

\* C1: InsertSlide(afterIndex, X) leaves the displayed index at afterIndex + 1,
\* so that the slide shown after an insert is the inserted slide X.
C1_InsertShowsNewSlide ==
    [][Did("insert") =>
          /\ currentSlide' = last'.index + 1
          /\ Slides'[currentSlide' + 1] = NewTextSlide]_vars

\* C2: InsertSlide(afterIndex, X) on a deck of length n yields a deck of length
\* n + 1 with X at position afterIndex + 1 (0 when afterIndex is -1); slides at
\* positions <= afterIndex keep their position, later ones move up by one.
C2_InsertPositions ==
    [][Did("insert") =>
          LET i == last'.index
          IN /\ Len(Slides') = Len(Slides) + 1
             /\ Slides'[i + 2] = NewTextSlide
             /\ \A j \in 1..(i + 1) : Slides'[j] = Slides[j]
             /\ \A j \in (i + 2)..Len(Slides) : Slides'[j + 1] = Slides[j]]_vars

\* C2's case: a slide inserted in the middle of a deck, and one inserted first.
C2_Witness ==
    /\ last.op = "insert" /\ last.index = 0
    /\ Len(Slides) = 3
    /\ Slides[1] = SlideA /\ Slides[2] = NewTextSlide /\ Slides[3] = SlideB

\* C3: DeleteSlide(index) removes exactly the slide at index, the others keep
\* their order; a displayed index at or beyond the new length is clamped to the
\* new last index, and it is 0 when the deck becomes empty.
C3_DeleteClamps ==
    [][Did("delete") =>
          LET i == last'.index
              n == Len(Slides')
          IN /\ InRange(Slides, i) =>
                  /\ n = Len(Slides) - 1
                  /\ \A j \in 1..i : Slides'[j] = Slides[j]
                  /\ \A j \in (i + 1)..n : Slides'[j] = Slides[j + 1]
             /\ (JsGe(currentSlide, n) /\ n > 0) => currentSlide' = n - 1
             /\ (~JsGe(currentSlide, n) /\ n > 0) => currentSlide' = currentSlide
             /\ (n = 0 /\ Len(Slides) = 1) => currentSlide' = 0]_vars

\* C3's case: the last slide was displayed and deleted, the index was clamped.
C3_Witness ==
    /\ last.op = "delete" /\ last.index = 2 /\ last.cur = 2
    /\ Len(Slides) = 2 /\ currentSlide = 1

\* C4: deleting the only slide yields the empty deck, shown as "No slides"
\* without error; an InsertSlide on the empty deck yields a one-slide deck
\* displayed at index 0, also after navigation events on the empty deck.
C4_EmptyDeckAndBack ==
    [][/\ (Did("delete") /\ Len(Slides) = 1 /\ InRange(Slides, last'.index)) =>
              /\ Slides' = <<>>
              /\ View' = "No slides"
              /\ ~crashed'
       /\ (Did("insert") /\ Len(Slides) = 0) =>
              /\ Len(Slides') = 1
              /\ currentSlide' = 0
              /\ View' = "slide"]_vars

\* C4's case: a navigation event hit the empty deck (the index became NaN)
\* and a slide was inserted afterwards.
C4_Witness ==
    /\ last.op = "insert" /\ last.cur = NaN
    /\ Slides = <<NewTextSlide>> /\ currentSlide = 0 /\ ops = 2

\* The values a customization click or drag can store under key k of slide s.
CustomizationValues(kind, s, k) ==
    CASE kind = "fontSizes" -> {FontSizeClicked(s, k, d) : d \in {-1, 1}}
      [] kind = "rotations" -> {RotationClicked(s, k, d) : d \in {-1, 1}}
      [] kind = "positions" -> DragPositions

MergedOneEntry(kind) ==
    Did(kind) =>
        LET s == Slides[last'.index + 1]
            k == last'.key
            pre == PropOrEmpty(s, kind)
            post == PropOrEmpty(Slides'[last'.index + 1], kind)
        IN /\ DOMAIN post = (DOMAIN pre) \cup {k}
           /\ post[k] \in CustomizationValues(kind, s, k)
           /\ \A other \in (DOMAIN pre) \ {k} : post[other] = pre[other]

\* C5: SetFieldCustomization(slideIndex, kind, fieldKey, value) merges one
\* entry into the slide's map for that kind: map[fieldKey] = value and every
\* other key keeps its value (fontSize on "title", then on "subtitle", leaves
\* both entries).
C5_CustomizationMerges ==
    [][/\ MergedOneEntry("fontSizes")
       /\ MergedOneEntry("rotations")
       /\ MergedOneEntry("positions")]_vars

\* C5's case: fontSize set on "title", then on "subtitle", of the same slide.
C5_Witness ==
    /\ last.op = "fontSizes" /\ last.key = "subtitle"
    /\ InRange(Slides, last.index)
    /\ DOMAIN PropOrEmpty(Slides[last.index + 1], "fontSizes") = {"title", "subtitle"}

\* C6: EditField(slideIndex, fieldName, value) replaces exactly one field of
\* the slide at slideIndex: its other fields (customization maps included),
\* the other slides, their order and the deck length are unchanged; with
\* slideIndex out of bounds the deck is unchanged.
C6_EditFieldFrame ==
    [][Did("edit") =>
          LET i == last'.index
              f == last'.key
          IN /\ presentation'.title = presentation.title
             /\ Len(Slides') = Len(Slides)
             /\ \A j \in 1..Len(Slides) : j # i + 1 => Slides'[j] = Slides[j]
             /\ InRange(Slides, i) =>
                  /\ DOMAIN Slides'[i + 1] = (DOMAIN Slides[i + 1]) \cup {f}
                  /\ Slides'[i + 1][f] \in TextValues
                  /\ \A g \in (DOMAIN Slides[i + 1]) \ {f} :
                        Slides'[i + 1][g] = Slides[i + 1][g]
             /\ ~InRange(Slides, i) => Slides' = Slides]_vars

\* C6's case: a text field edited on a slide that carries a customization map,
\* in a deck with another slide.
C6_Witness ==
    /\ last.op = "edit" /\ InRange(Slides, last.index)
    /\ Len(Slides) = 2
    /\ "fontSizes" \in DOMAIN Slides[last.index + 1]
    /\ Slides[last.index + 1][last.key] = "Z"

\* ================================================= claims on the renderers
\* What slide.left / slide.right is: absent, an array ("arr") or a record ("rec").
SideKind(slide, side) == IF side \in DOMAIN slide THEN slide[side].t ELSE "absent"

Homogeneous(slide) == SideKind(slide, "left") = SideKind(slide, "right")

\* C21: every edit issued by a slide renderer leaves left and right of each
\* slide homogeneous (both absent, both arrays or both records), and a side
\* that was an array does not become a record, nor a record an array.
C21_LeftRightHomogeneous ==
    [][\A i \in DOMAIN Slides' :
          /\ Homogeneous(Slides'[i])
          /\ \A side \in {"left", "right"} :
                i \in DOMAIN Slides /\ SideKind(Slides[i], side) # "absent"
                   => SideKind(Slides'[i], side) = SideKind(Slides[i], side)]_vars

\* ================================================ claims on the result step
\* C22: after synthesis the presentation is changed only by editor operations:
\* a step that is no editor operation (navigation, the style select, "Create
\* New") leaves title and slides as they were, and an editor operation issued
\* on the result step leaves the page on the result step.
C22_OnlyEditorChangesDeck ==
    [][/\ ops' = ops => presentation' = presentation
       /\ step = "result" /\ ops' = ops + 1 =>
             step' = "result" /\ presentation'.title = presentation.title]_vars

\* An edit, a style switch and a navigation were made and the page went back
\* to the input step with the edited presentation still held.
C22_Witness ==
    /\ step = "input" /\ IsPresentation(presentation)
    /\ ops > 0 /\ last.op \in {"next", "prev"} /\ selectedTemplate # "minimalist"

\* C23: whatever editor operations and navigation events are issued, on an
\* empty deck or with an out-of-range index included, the session does not
\* fail: the displayed index is a number and the deck is a sequence of slides.
C23_SessionNeverFails ==
    /\ ~crashed
    /\ IsPresentation(presentation)
    /\ currentSlide # NaN /\ currentSlide \in Int

\* ============================================ claims on the generate route
\* C24: a reply that is valid JSON wrapped in a json fence or in a plain
\* fence (fence, newline, body, newline, fence) is parsed to exactly the value
\* of its body, and a bare valid JSON reply is parsed unchanged.
C24_FenceRemovedBeforeParsing ==
    [][\A d \in DOMAIN JsonDocs :
          (/\ Completes
           /\ lastResp'.stage = "generate" /\ apiKey
           /\ lastResp'.upstream.kind = "text"
           /\ Trim(lastResp'.upstream.text) \in
                 { <<d>>, <<FENCE, "json", NL, d, NL, FENCE>>, <<FENCE, NL, d, NL, FENCE>> })
             => lastResp'.response = [status |-> 200, body |-> JsonDocs[d]]]_vars

\* C24's case: a fenced reply holding a deck was answered with the deck itself.
C24_Witness ==
    /\ lastResp.stage = "generate" /\ lastResp.upstream.kind = "text"
    /\ Len(lastResp.upstream.text) > 1 /\ Head(lastResp.upstream.text) = FENCE
    /\ lastResp.response.status = 200
    /\ lastResp.response.body = JsonDocs["{presentation:{title,slides:[A,B]}}"]

\* ============================================ claims on the page, continued
\* C25: the page is in the result step only while it holds a presentation:
\* the result step is never entered without one, and nothing clears the
\* presentation while the page is in the result step.
C25_ResultHasPresentation == step = "result" => presentation # NullPresentation

\* C25's case: the result step was left with "Create New" and entered again
\* by a second synthesis.
C25_Witness ==
    /\ step = "result" /\ presentation # NullPresentation
    /\ lastResp.id = 2 /\ lastResp.outcome = "ok" /\ lastResp.before # NullPresentation

\* =========================================== claims on the editor, continued
\* C26: once the effects have run, whenever the deck is non-empty the
\* displayed index is an integer from 0 to length - 1, also after navigation
\* events were received while the deck was empty.
C26_IndexInRange == Len(Slides) > 0 => InRange(Slides, currentSlide)

\* C27: on a deck of n >= 1 slides, next from index i shows (i + 1) mod n and
\* previous shows (i - 1 + n) mod n; previous right after next, and next
\* right after previous, show the index displayed before the two.
C27_NavigationWraps ==
    [][LET n == Len(Slides)
       IN (n >= 1 /\ InRange(Slides, currentSlide)) =>
             /\ last'.op = "next" => currentSlide' = (currentSlide + 1) % n
             /\ last'.op = "prev" => currentSlide' = (currentSlide - 1 + n) % n
             /\ (last.op = "next" /\ last'.op = "prev") => currentSlide' = last.cur
             /\ (last.op = "prev" /\ last'.op = "next") => currentSlide' = last.cur]_vars

\* C27's case: next on the last slide of a deck of two or more showed the first.
C27_Witness ==
    /\ Len(Slides) >= 2
    /\ last.op = "next" /\ last.cur = Len(Slides) - 1 /\ currentSlide = 0

\* C28: the delete button removes the displayed slide; when that slide was
\* not the last, the displayed index is unchanged and the slide shown is the
\* one that followed it; when it was the last, the slide shown is the new last.
C28_DeleteTargetsDisplayed ==
    [][(Did("delete") /\ last'.key = "button") =>
          LET i == currentSlide
              n == Len(Slides)
          IN /\ last'.index = i
             /\ Slides' = SubSeq(Slides, 1, i) \o SubSeq(Slides, i + 2, n)
             /\ i < n - 1 =>
                   currentSlide' = i /\ Slides'[currentSlide' + 1] = Slides[i + 2]
             /\ (i = n - 1 /\ n > 1) =>
                   currentSlide' = n - 2 /\ Slides'[currentSlide' + 1] = Slides[n - 1]]_vars

\* C28's case: the first of two slides was displayed and deleted
\* with the button, and the slide that followed it is shown at the same index.
C28_Witness ==
    /\ last.op = "delete" /\ last.key = "button" /\ last.index = 0 /\ last.cur = 0
    /\ currentSlide = 0 /\ Slides = <<SlideB>> /\ ops = 1

\* =============================== claims on the renderers, customization
\* The styled font size of the element with the customization key.
StyleOf(key) ==
    (CHOOSE e \in Editables(selectedTemplate, Displayed) : e.key = key).style

Distance(a, b) == IF a >= b THEN a - b ELSE b - a

\* C29: a font-size click stores a size that differs by exactly 2 from the
\* size in effect (the stored size, or the styled size), a rotation click
\* stores a rotation that differs by exactly 5 degrees from the one in effect,
\* and the stored font size is always a positive number.
C29_CustomizationSteps ==
    [][LET key == last'.key
           slide == Slides[currentSlide + 1]
           after == Slides'[currentSlide + 1]
       IN /\ last'.op = "fontSizes" =>
                /\ Distance(after.fontSizes[key],
                            OrElse(CustomValue(slide, "fontSizes", key), StyleOf(key))) = 2
                /\ after.fontSizes[key] > 0
          /\ last'.op = "rotations" =>
                Distance(after.rotations[key],
                         OrElse(CustomValue(slide, "rotations", key), 0)) = 5]_vars

\* The fields of a slide that hold text.
TextFields == {"title", "subtitle", "text", "caption", "author", "detail", "number", "image"}

\* Two values of a slide hold the same content, an absent text field or
\* record property counting as the empty string.
SameContent(slide, after) ==
    /\ \A f \in TextFields : TextOr(after, f) = TextOr(slide, f)
    /\ \A side \in {"left", "right"} :
          IF IsArray(slide, side) THEN side \in DOMAIN after /\ after[side] = slide[side]
          ELSE /\ ~IsArray(after, side)
               /\ \A prop \in {"title", "value", "label"} :
                     DataProp(after, side, prop) = DataProp(slide, side, prop)

\* C30: a blur that leaves the text as shown commits the string the field
\* already held (an absent field counting as the empty string), so the
\* slide's content is unchanged, for every slide type and rendered field and
\* also for quote slides without text or author.
C30_BlurKeepsContent ==
    [][last'.op = "blur" => SameContent(Slides[currentSlide + 1], Slides'[currentSlide + 1])]_vars

====
